---- MODULE Spec2Model ----
(***************************************************************************)
(* Model of ai_models_training/finetune_model.py: the LoRA fine-tuning     *)
(* script.  Every run is one execution of main() in its own process; the   *)
(* runs share the file system (Models/, logs/, the documentation           *)
(* directory) and the wall clock, whose one-second reading names the       *)
(* incident logs.                                                          *)
(*                                                                         *)
(* The external collaborators (torch, transformers, peft, datasets, the    *)
(* file system) are modelled by their outcome only: every stage either     *)
(* returns, raises an Exception, or is cut short by a KeyboardInterrupt.   *)
(* An except-handler, once entered, runs to its end.                       *)
(***************************************************************************)
EXTENDS Integers, Sequences, FiniteSets, TLC

\* ------------------------------------------------------------------------
\* Bounds of the model
\* ------------------------------------------------------------------------

\* The wall clock is read in whole seconds 0..MaxClock.
MaxClock == 1

\* The processes that execute main(), in a fixed order of their names.
RunList == <<"r1", "r2">>

Runs == {RunList[i] : i \in 1..Len(RunList)}

\* ------------------------------------------------------------------------
\* Configuration (module-level constants of the script)
\* ------------------------------------------------------------------------

\* FINETUNING_CONFIG["version"]
FINETUNING_VERSION == "v1"

\* The keys of OUTPUT_CONFIG as the script defines them.
OUTPUT_CONFIG == {"models_dir", "training_data_dir", "crash_reports_dir"}

\* OUTPUT_CONFIG is a module-level dict that check_system and
\* generate_documentation index with "documentation_dir".  The model also
\* covers the dict with that key present (a caller that imports the module
\* and completes the dict), so that the stages behind check_system are
\* exercised; the script as shipped is outputConfig = OUTPUT_CONFIG.
OutputConfigs == {OUTPUT_CONFIG, OUTPUT_CONFIG \cup {"documentation_dir"}}

\* ------------------------------------------------------------------------
\* The environment: paths on disk, the training corpus, the operator
\* ------------------------------------------------------------------------

SCRIPT == <<"finetune_model.py">>

\* Base-model locations a run may name.  A/m and B/m have the same final
\* component and so the same artifact directory.
ModelPaths == {<<"A", "m">>, <<"B", "m">>, <<"X", "gone">>}

\* os.path.exists(model_path)
ExistingPaths == {<<"A", "m">>, <<"B", "m">>}

\* (Path(source_model_path) / "LICENSE").exists()
LicensedPaths == {<<"A", "m">>}

\* sys.argv of a run: the script name and zero, one or two arguments.
ArgList ==
    << <<SCRIPT>>,
       <<SCRIPT, <<"A", "m">>>>,
       <<SCRIPT, <<"B", "m">>>>,
       <<SCRIPT, <<"X", "gone">>>>,
       <<SCRIPT, <<"A", "m">>, <<"extra">>>> >>

ArgVectors == {ArgList[i] : i \in 1..Len(ArgList)}

ArgRank(a) == CHOOSE i \in 1..Len(ArgList) : ArgList[i] = a

\* What the operator has typed for input("Continue anyway? (y/n): ").
Answers == {"y", "Y", "n"}

\* The records of each corpus file of the version directory.
CorpusFiles == {"a.jsonl", "b.jsonl"}

RecordsOf(f) == IF f = "a.jsonl" THEN <<"a1", "a2">> ELSE <<"b1">>

\* The version directory: absent, or holding some of the corpus files.
NoDir == [exists |-> FALSE, files |-> {}]

DataDirs ==
    {NoDir} \cup {[exists |-> TRUE, files |-> fs] :
                    fs \in {{}, {"a.jsonl"}, CorpusFiles}}

\* ------------------------------------------------------------------------
\* Values
\* ------------------------------------------------------------------------

NoFile == [by |-> "none"]

Clock == 0..MaxClock

\* Path(model_path).name
PathName(p) == p[Len(p)]

\* output_name = f"{model_name}_ft_{version}"
OutputName(model_name, version) == [model |-> model_name, version |-> version]

OutputNames == {OutputName(PathName(p), FINETUNING_VERSION) : p \in ModelPaths}

NoArtifact == [exists |-> FALSE, files |-> {}, config |-> NoFile]

\* str.lower() on the answers of the model
Lower(s) == IF s = "Y" THEN "y" ELSE s

\* All orders in which a set of files can be listed.
RECURSIVE Perms(_)
Perms(S) ==
    IF S = {} THEN {<< >>}
    ELSE UNION {{<<x>> \o t : t \in Perms(S \ {x})} : x \in S}

\* The records of the files, concatenated in the order given.
RECURSIVE Concat(_)
Concat(fs) ==
    IF fs = << >> THEN << >> ELSE RecordsOf(Head(fs)) \o Concat(Tail(fs))

\* ------------------------------------------------------------------------
\* format_instruction
\* ------------------------------------------------------------------------

\* Python's None, as a field value.
NONE == "<None>"

\* The values a field of a record may have; none is a header line.
FieldValues == {"", " ", "q", NONE}

\* The keys a record may have besides the three the template reads.
ExampleKeys == {"instruction", "input", "output", "id"}

\* The records: any of the keys, each with any of the values.
Examples == UNION {[ks -> FieldValues] : ks \in SUBSET ExampleKeys}

\* example.get(key, "")
Get(ex, key) == IF key \in DOMAIN ex THEN ex[key] ELSE ""

\* Truth value of a field value: "" and None are false.
Truthy(v) == v \notin {"", NONE}

\* A value as an f-string renders it.
Str(v) == IF v = NONE THEN "None" ELSE v

\* The prompt of the three-section and of the two-section template, as its
\* lines (the fields are single lines).
ThreeSections(instruction, input_text, output_text) ==
    << "### Instruction:", Str(instruction), "",
       "### Input:", Str(input_text), "",
       "### Response:", Str(output_text) >>

TwoSections(instruction, output_text) ==
    << "### Instruction:", Str(instruction), "",
       "### Response:", Str(output_text) >>

\* format_instruction choosing the template by the presence of the key.
format_instruction_by_key(ex) ==
    IF "input" \in DOMAIN ex
    THEN ThreeSections(Get(ex, "instruction"), Get(ex, "input"), Get(ex, "output"))
    ELSE TwoSections(Get(ex, "instruction"), Get(ex, "output"))

format_instruction(ex) ==
    LET instruction == Get(ex, "instruction")
        input_text == Get(ex, "input")
        output_text == Get(ex, "output")
    IN  IF Truthy(input_text)
        THEN ThreeSections(instruction, input_text, output_text)
        ELSE TwoSections(instruction, output_text)

\* No record, no text.
NoExample == << >>

VARIABLES
    example,        \* the record handed to format_instruction
    text,           \* the "text" of what format_instruction returned
    outputConfig,   \* keys of OUTPUT_CONFIG
    cuda,           \* torch.cuda.is_available()
    dataDir,        \* training data/<version>/
    argv,           \* sys.argv of each run
    stdin,          \* the operator's answer waiting on each run's stdin
                    \* ("" once input() has read it)
    now,            \* the wall clock, in seconds
    madeDirs,       \* configured directories created so far
    artifacts,      \* Models/<output_name>/ for each output name
    crashReports,   \* logs/crash_report_finetune_model_<ts>.log
    licenseLogs,    \* logs/missing_license_<ts>.log
    docs,           \* <documentation_dir>/<output_name>.md
    run             \* each run's control state and bookkeeping:
                    \*   pc       where the run stands in main
                    \*   exit     {} while running, {status} once exited
                    \*   end      why the run ended
                    \*   stage, error   the pending exception and its stage
                    \*   dataset  what load_training_data returned
                    \*   loaded   load_training_data was entered
                    \*   reports, reportStamps   write_crash_report calls
                    \*   licenseStamps   missing-license logs written
                    \*   configWrites    finetuning_config.json writes
                    \*   madeArtifact, wrote   what the run did to its
                    \*                         artifact directory
                    \*   returned  train_model returned output_dir

formatter == <<example, text>>

env == <<outputConfig, cuda, dataDir, argv, stdin, formatter>>

disk == <<madeDirs, artifacts, crashReports, licenseLogs, docs>>

vars == <<example, text, outputConfig, cuda, dataDir, argv, stdin, now,
          madeDirs, artifacts, crashReports, licenseLogs, docs, run>>

InitRun ==
    [pc |-> "main", exit |-> {}, end |-> "none",
     stage |-> "none", error |-> "none",
     dataset |-> << >>, loaded |-> FALSE,
     reports |-> 0, reportStamps |-> {},
     licenseStamps |-> {}, configWrites |-> 0,
     madeArtifact |-> FALSE, wrote |-> {}, returned |-> FALSE]

Init ==
    /\ example = NoExample
    /\ text = << >>
    /\ outputConfig \in OutputConfigs
    /\ cuda \in BOOLEAN
    /\ dataDir \in DataDirs
    \* the runs execute the same program: each combination of command
    \* lines is listed once, whichever run has which
    /\ argv \in [Runs -> ArgVectors]
    /\ \A i, j \in 1..Len(RunList) :
          i < j => ArgRank(argv[RunList[i]]) <= ArgRank(argv[RunList[j]])
    \* stdin is read only when no accelerator is present
    /\ stdin \in [Runs -> IF cuda THEN {"y"} ELSE Answers]
    /\ now = 0
    /\ madeDirs = {}
    /\ artifacts = [o \in OutputNames |-> NoArtifact]
    /\ crashReports = [t \in Clock |-> NoFile]
    /\ licenseLogs = [t \in Clock |-> NoFile]
    /\ docs = [o \in OutputNames |-> NoFile]
    /\ run = [r \in Runs |-> InitRun]


\* ------------------------------------------------------------------------
\* Leaving the pipeline
\* ------------------------------------------------------------------------

\* sys.exit(status) inside main's try: SystemExit is caught by neither
\* except clause, so the process ends with that status (and its memory,
\* the dataset included, is gone).
SysExit(rec, status, why) ==
    [rec EXCEPT !.pc = "done", !.exit = {status}, !.end = why,
                !.dataset = << >>]

\* except KeyboardInterrupt: print a warning, sys.exit(130).
HandleKeyboardInterrupt(rec) == SysExit(rec, 130, "interrupted")

\* Raise with the except clauses merged into one that catches everything:
\* a KeyboardInterrupt is reported like a failure.
RaiseCatchAll(rec, exc, stage) ==
    [rec EXCEPT !.error = exc, !.stage = stage, !.pc = "except"]

\* A stage of the try body does not return but raises exc.  main's except
\* clauses are tried in order: KeyboardInterrupt is handled by the first;
\* any other exception is pending for the except Exception clause.
Raise(rec, exc, stage) ==
    LET raised == [rec EXCEPT !.error = exc, !.stage = stage]
    IN  IF exc = "KeyboardInterrupt"
        THEN HandleKeyboardInterrupt(raised)
        ELSE [raised EXCEPT !.pc = "except"]

\* ErrorContext with the index off by one: sys.argv[0], the script.
ErrorContextScript(args) ==
    [kind |-> "Model", value |-> IF Len(args) > 1 THEN args[1] ELSE <<"unknown">>]

\* The error_context main hands to write_crash_report.
ErrorContext(args) ==
    [kind |-> "Model", value |-> IF Len(args) > 1 THEN args[2] ELSE <<"unknown">>]

\* The artifact directory of a run.
OutputDir(r) == OutputName(PathName(argv[r][2]), FINETUNING_VERSION)

\* The output directory made afresh: what was in it is removed.
MakeDirFresh(dir) == [dir EXCEPT !.exists = TRUE, !.files = {}, !.config = NoFile]

\* os.makedirs(dir, exist_ok=True), as save_pretrained and the training
\* engine do for their output directory.
MakeDir(dir) == [dir EXCEPT !.exists = TRUE]

\* A file written into a directory, which is created when missing.
PutFile(dir, file) == [MakeDir(dir) EXCEPT !.files = @ \cup {file}]

\* Bookkeeping: the run created directory dir if it was missing.
Made(rec, dir) == [rec EXCEPT !.madeArtifact = @ \/ ~dir.exists]

\* Bookkeeping: the run wrote file into directory dir.
Wrote(rec, dir, file) == [Made(rec, dir) EXCEPT !.wrote = @ \cup {file}]

\* ------------------------------------------------------------------------
\* main, lines 413-424: argument and model-path checks
\* ------------------------------------------------------------------------

Main(r) ==
    /\ run[r].pc = "main"
    /\ \E out \in {"ok", "KeyboardInterrupt"} :
         run' = [run EXCEPT ![r] =
                   IF out # "ok" THEN Raise(@, out, "start")
                   ELSE IF Len(argv[r]) # 2 THEN SysExit(@, 1, "usage")
                   ELSE IF argv[r][2] \notin ExistingPaths
                        THEN SysExit(@, 1, "ModelPathNotFound")
                   ELSE [@ EXCEPT !.pc = "check_system"]]
    /\ UNCHANGED <<env, now, disk>>

\* ------------------------------------------------------------------------
\* check_system: creates Models/, then indexes OUTPUT_CONFIG with
\* "documentation_dir" (KeyError when the key is missing)
\* ------------------------------------------------------------------------

CheckSystem(r) ==
    /\ run[r].pc = "check_system"
    /\ \E out \in {"ok", "Exception", "KeyboardInterrupt"} :
         IF out # "ok"
         THEN /\ UNCHANGED madeDirs
              /\ run' = [run EXCEPT ![r] = Raise(@, out, "system check")]
         ELSE IF "documentation_dir" \notin outputConfig
         THEN /\ madeDirs' = madeDirs \cup {"models_dir"}
              /\ run' = [run EXCEPT ![r] = Raise(@, "KeyError", "system check")]
         ELSE /\ madeDirs' = madeDirs \cup {"models_dir", "documentation_dir"}
              /\ run' = [run EXCEPT ![r].pc = "prompt"]
    /\ UNCHANGED <<env, now, artifacts, crashReports, licenseLogs, docs>>

\* ------------------------------------------------------------------------
\* main, lines 428-435: the no-accelerator prompt
\* ------------------------------------------------------------------------

Prompt(r) ==
    /\ run[r].pc = "prompt"
    /\ \E out \in {"ok", "KeyboardInterrupt"} :
         IF out # "ok"
         THEN /\ run' = [run EXCEPT ![r] = Raise(@, out, "prompt")]
              /\ UNCHANGED stdin
         ELSE IF cuda
         THEN /\ run' = [run EXCEPT ![r].pc = "load"]
              /\ UNCHANGED stdin
         ELSE LET response == stdin[r]
              IN  /\ stdin' = [stdin EXCEPT ![r] = ""]
                  /\ run' = [run EXCEPT ![r] =
                               IF Lower(response) # "y"
                               THEN SysExit(@, 0, "declined")
                               ELSE [@ EXCEPT !.pc = "load"]]
    /\ UNCHANGED <<outputConfig, cuda, dataDir, argv, formatter, now, disk>>

\* ------------------------------------------------------------------------
\* load_training_data
\* ------------------------------------------------------------------------

\* load_training_data without the check for an empty file list.
LoadTrainingDataUnchecked(r) ==
    /\ run[r].pc = "load"
    /\ \E out \in {"ok", "Exception", "KeyboardInterrupt"} :
         IF out # "ok"
         THEN run' = [run EXCEPT ![r] =
                        Raise([@ EXCEPT !.loaded = TRUE], out, "dataset loading")]
         ELSE IF ~dataDir.exists
         THEN run' = [run EXCEPT ![r] =
                        SysExit([@ EXCEPT !.loaded = TRUE], 1, "DatasetNotFound")]
         ELSE \E jsonl_files \in Perms(dataDir.files) :
                run' = [run EXCEPT ![r].loaded = TRUE,
                                   ![r].dataset = Concat(jsonl_files),
                                   ![r].pc = "setup"]
    /\ UNCHANGED <<env, now, disk>>

LoadTrainingData(r) ==
    /\ run[r].pc = "load"
    /\ \E out \in {"ok", "Exception", "KeyboardInterrupt"} :
         IF out # "ok"
         THEN run' = [run EXCEPT ![r] =
                        Raise([@ EXCEPT !.loaded = TRUE], out, "dataset loading")]
         ELSE IF ~dataDir.exists
         THEN run' = [run EXCEPT ![r] =
                        SysExit([@ EXCEPT !.loaded = TRUE], 1, "DatasetNotFound")]
         ELSE IF dataDir.files = {}
         THEN run' = [run EXCEPT ![r] =
                        SysExit([@ EXCEPT !.loaded = TRUE], 1, "DatasetEmpty")]
         ELSE \E jsonl_files \in Perms(dataDir.files) :
                run' = [run EXCEPT ![r].loaded = TRUE,
                                   ![r].dataset = Concat(jsonl_files),
                                   ![r].pc = "setup"]
    /\ UNCHANGED <<env, now, disk>>

\* ------------------------------------------------------------------------
\* setup_model_and_tokenizer, prepare_dataset: external calls only
\* ------------------------------------------------------------------------

SetupModelAndTokenizer(r) ==
    /\ run[r].pc = "setup"
    /\ \E out \in {"ok", "Exception", "KeyboardInterrupt"} :
         run' = [run EXCEPT ![r] =
                   IF out # "ok" THEN Raise(@, out, "model setup")
                   ELSE [@ EXCEPT !.pc = "prepare"]]
    /\ UNCHANGED <<env, now, disk>>

PrepareDataset(r) ==
    /\ run[r].pc = "prepare"
    /\ \E out \in {"ok", "Exception", "KeyboardInterrupt"} :
         run' = [run EXCEPT ![r] =
                   IF out # "ok" THEN Raise(@, out, "encoding")
                   ELSE [@ EXCEPT !.pc = "train"]]
    /\ UNCHANGED <<env, now, disk>>


\* ------------------------------------------------------------------------
\* train_model
\* ------------------------------------------------------------------------

\* Lines 272-306: Trainer(...) and trainer.train() with output_dir set to
\* the artifact directory and save_steps = 100: whether the engine creates
\* the directory and leaves checkpoints there depends on the engine and on
\* the number of optimisation steps, and does not depend on how the
\* training ends.
Train(r) ==
    /\ run[r].pc = "train"
    /\ \E out \in {"ok", "Exception", "KeyboardInterrupt"} :
       \E checkpoint \in BOOLEAN :
         LET dir == artifacts[OutputDir(r)]
             rec == IF checkpoint
                    THEN Wrote(run[r], dir, "checkpoint") ELSE run[r]
         IN  /\ artifacts' = [artifacts EXCEPT ![OutputDir(r)] =
                                IF checkpoint THEN PutFile(@, "checkpoint") ELSE @]
             /\ run' = [run EXCEPT ![r] =
                          IF out # "ok" THEN Raise(rec, out, "training")
                          ELSE [rec EXCEPT !.pc = "save_model"]]
    /\ UNCHANGED <<env, now, madeDirs, crashReports, licenseLogs, docs>>

\* SaveStep with a failed write swallowed: train_model goes on.
SaveStepSwallowed(r, file, next) ==
    \E out \in {"ok", "Exception", "KeyboardInterrupt"} :
      LET dir == artifacts[OutputDir(r)]
      IN  IF out = "ok"
          THEN /\ artifacts' = [artifacts EXCEPT ![OutputDir(r)] = PutFile(@, file)]
               /\ run' = [run EXCEPT ![r] =
                            [Wrote(@, dir, file) EXCEPT !.pc = next]]
          ELSE /\ UNCHANGED artifacts
               /\ run' = [run EXCEPT ![r] =
                            IF out = "Exception"
                            THEN [@ EXCEPT !.pc = next]
                            ELSE Raise(@, out, "saving")]

\* One saving step of train_model that writes `file` into output_dir and
\* goes on to `next`.
SaveStep(r, file, next) ==
    \E out \in {"ok", "Exception", "KeyboardInterrupt"} :
      LET dir == artifacts[OutputDir(r)]
      IN  IF out = "ok"
          THEN /\ artifacts' = [artifacts EXCEPT ![OutputDir(r)] = PutFile(@, file)]
               /\ run' = [run EXCEPT ![r] =
                            [Wrote(@, dir, file) EXCEPT !.pc = next]]
          ELSE /\ UNCHANGED artifacts
               /\ run' = [run EXCEPT ![r] = Raise(@, out, "saving")]

\* Line 309: model.save_pretrained(output_dir)
SaveModel(r) ==
    /\ run[r].pc = "save_model"
    /\ SaveStep(r, "weights", "save_tokenizer")
    /\ UNCHANGED <<env, now, madeDirs, crashReports, licenseLogs, docs>>

\* Line 310: tokenizer.save_pretrained(output_dir)
SaveTokenizer(r) ==
    /\ run[r].pc = "save_tokenizer"
    /\ SaveStep(r, "tokenizer", "license")
    /\ UNCHANGED <<env, now, madeDirs, crashReports, licenseLogs, docs>>

\* Lines 312-316 and copy_license_or_log: LICENSE is copied from the source
\* model when it has one; otherwise logs/missing_license_<timestamp>.log is
\* opened for writing, named by the clock's second.
CopyLicenseOrLog(r) ==
    /\ run[r].pc = "license"
    /\ LET source_model_path == argv[r][2]
           dir == artifacts[OutputDir(r)]
       IN  \E out \in {"ok", "Exception", "KeyboardInterrupt"} :
             IF out # "ok"
             THEN /\ run' = [run EXCEPT ![r] = Raise(@, out, "saving")]
                  /\ UNCHANGED <<madeDirs, artifacts, licenseLogs>>
             ELSE IF source_model_path \in LicensedPaths
             THEN /\ artifacts' = [artifacts EXCEPT ![OutputDir(r)] =
                                     PutFile(@, "LICENSE")]
                  /\ run' = [run EXCEPT ![r] =
                               [Wrote(@, dir, "LICENSE") EXCEPT !.pc = "config"]]
                  /\ UNCHANGED <<madeDirs, licenseLogs>>
             ELSE /\ madeDirs' = madeDirs \cup {"crash_reports_dir"}
                  /\ licenseLogs' = [licenseLogs EXCEPT ![now] =
                                       [by |-> r, source |-> source_model_path]]
                  /\ run' = [run EXCEPT ![r].licenseStamps = @ \cup {now},
                                        ![r].pc = "config"]
                  /\ UNCHANGED artifacts
    /\ UNCHANGED <<env, now, crashReports, docs>>

\* Lines 318-338: finetuning_config.json is opened for writing and dumped,
\* and train_model returns output_dir.  A dump that does not return leaves
\* the file as open(.., "w") made it: present and cut short.
WriteConfig(r) ==
    /\ run[r].pc = "config"
    /\ LET dir == artifacts[OutputDir(r)]
           file == "finetuning_config.json"
       IN  \E out \in {"ok", "Exception", "KeyboardInterrupt"} :
             IF out = "ok"
             THEN /\ artifacts' = [artifacts EXCEPT ![OutputDir(r)] =
                                     [PutFile(@, file) EXCEPT
                                        !.config = [by |-> r, whole |-> TRUE]]]
                  /\ run' = [run EXCEPT ![r] =
                               [Wrote(@, dir, file) EXCEPT
                                  !.configWrites = @ + 1,
                                  !.returned = TRUE,
                                  !.pc = "document"]]
             ELSE \E opened \in BOOLEAN :
                  /\ artifacts' = [artifacts EXCEPT ![OutputDir(r)] =
                                     IF opened
                                     THEN [PutFile(@, file) EXCEPT
                                             !.config = [by |-> r, whole |-> FALSE]]
                                     ELSE @]
                  /\ run' = [run EXCEPT ![r] =
                               Raise(IF opened THEN Wrote(@, dir, file) ELSE @,
                                     out, "saving")]
    /\ UNCHANGED <<env, now, madeDirs, crashReports, licenseLogs, docs>>

\* ------------------------------------------------------------------------
\* generate_documentation: line 400 indexes OUTPUT_CONFIG with
\* "documentation_dir" (KeyError when the key is missing), then the
\* documentation file is written
\* ------------------------------------------------------------------------

\* generate_documentation with its write guarded: a failure is a warning
\* and the run goes on.
GenerateDocumentationGuarded(r) ==
    /\ run[r].pc = "document"
    /\ \E out \in {"ok", "Exception", "KeyboardInterrupt"} :
         IF out = "KeyboardInterrupt"
         THEN /\ run' = [run EXCEPT ![r] = Raise(@, out, "documenting")]
              /\ UNCHANGED docs
         ELSE IF out = "Exception"
         THEN /\ run' = [run EXCEPT ![r].error = out,
                                    ![r].stage = "documenting",
                                    ![r].pc = "complete"]
              /\ UNCHANGED docs
         ELSE IF "documentation_dir" \notin outputConfig
         THEN /\ run' = [run EXCEPT ![r] = Raise(@, "KeyError", "documenting")]
              /\ UNCHANGED docs
         ELSE /\ docs' = [docs EXCEPT ![OutputDir(r)] =
                            [by |-> r, examples |-> Len(run[r].dataset)]]
              /\ run' = [run EXCEPT ![r].pc = "complete"]
    /\ UNCHANGED <<env, now, madeDirs, artifacts, crashReports, licenseLogs>>

GenerateDocumentation(r) ==
    /\ run[r].pc = "document"
    /\ \E out \in {"ok", "Exception", "KeyboardInterrupt"} :
         IF out # "ok"
         THEN /\ run' = [run EXCEPT ![r] = Raise(@, out, "documenting")]
              /\ UNCHANGED docs
         ELSE IF "documentation_dir" \notin outputConfig
         THEN /\ run' = [run EXCEPT ![r] = Raise(@, "KeyError", "documenting")]
              /\ UNCHANGED docs
         ELSE /\ docs' = [docs EXCEPT ![OutputDir(r)] =
                            [by |-> r, examples |-> Len(run[r].dataset)]]
              /\ run' = [run EXCEPT ![r].pc = "complete"]
    /\ UNCHANGED <<env, now, madeDirs, artifacts, crashReports, licenseLogs>>

\* ------------------------------------------------------------------------
\* main, lines 443-445: the closing messages; main returns, status 0
\* ------------------------------------------------------------------------

Complete(r) ==
    /\ run[r].pc = "complete"
    /\ \E out \in {"ok", "KeyboardInterrupt"} :
         run' = [run EXCEPT ![r] =
                   IF out # "ok" THEN Raise(@, out, "complete")
                   ELSE SysExit(@, 0, "complete")]
    /\ UNCHANGED <<env, now, disk>>

\* ------------------------------------------------------------------------
\* main, lines 450-453, and write_crash_report: the report is opened for
\* writing under a name made of the clock's second; then sys.exit(1)
\* ------------------------------------------------------------------------

WriteCrashReport(r) ==
    /\ run[r].pc = "except"
    /\ madeDirs' = madeDirs \cup {"crash_reports_dir"}
    /\ crashReports' = [crashReports EXCEPT ![now] =
                          [by |-> r,
                           context |-> ErrorContext(argv[r]),
                           error |-> run[r].error,
                           traceback |-> <<"main", run[r].stage>>]]
    /\ run' = [run EXCEPT ![r] =
                 SysExit([@ EXCEPT !.reports = @ + 1,
                                   !.reportStamps = @ \cup {now}],
                         1, "crashed")]
    /\ UNCHANGED <<env, now, artifacts, licenseLogs, docs>>

\* ------------------------------------------------------------------------
\* The wall clock
\* ------------------------------------------------------------------------

Tick ==
    /\ now < MaxClock
    /\ now' = now + 1
    /\ UNCHANGED <<env, disk, run>>

Next ==
    \/ \E r \in Runs :
         \/ Main(r)
         \/ CheckSystem(r)
         \/ Prompt(r)
         \/ LoadTrainingData(r)
         \/ SetupModelAndTokenizer(r)
         \/ PrepareDataset(r)
         \/ Train(r)
         \/ SaveModel(r)
         \/ SaveTokenizer(r)
         \/ CopyLicenseOrLog(r)
         \/ WriteConfig(r)
         \/ GenerateDocumentation(r)
         \/ Complete(r)
         \/ WriteCrashReport(r)
    \/ Tick

Spec == Init /\ [][Next]_vars

\* ------------------------------------------------------------------------
\* format_instruction on its own: one call on any record
\* ------------------------------------------------------------------------

InitFormat ==
    /\ example \in Examples
    /\ text = << >>
    /\ outputConfig = OUTPUT_CONFIG
    /\ cuda = TRUE
    /\ dataDir = NoDir
    /\ argv = [r \in Runs |-> <<SCRIPT>>]
    /\ stdin = [r \in Runs |-> "y"]
    /\ now = 0
    /\ madeDirs = {}
    /\ artifacts = [o \in OutputNames |-> NoArtifact]
    /\ crashReports = [t \in Clock |-> NoFile]
    /\ licenseLogs = [t \in Clock |-> NoFile]
    /\ docs = [o \in OutputNames |-> NoFile]
    /\ run = [r \in Runs |-> InitRun]

FormatInstruction ==
    /\ text = << >>
    /\ text' = format_instruction(example)
    /\ UNCHANGED <<example, outputConfig, cuda, dataDir, argv, stdin, now,
                   disk, run>>

NextFormat == FormatInstruction

SpecFormat == InitFormat /\ [][NextFormat]_vars


\* ------------------------------------------------------------------------
\* Vocabulary of the properties
\* ------------------------------------------------------------------------

Done(r) == run[r].pc = "done"

\* The script as shipped: OUTPUT_CONFIG has no "documentation_dir".
Shipped == outputConfig = OUTPUT_CONFIG

\* Exactly one argument, naming an existing base-model directory.
GoodArgs(r) == Len(argv[r]) = 2 /\ argv[r][2] \in ExistingPaths

\* The operator's answer to the prompt, waiting on stdin or already read,
\* is a yes / is not a yes.
Agrees(r) ==
    \/ stdin[r] # "" /\ Lower(stdin[r]) = "y"
    \/ stdin[r] = "" /\ run[r].end # "declined"

Declines(r) ==
    \/ stdin[r] # "" /\ Lower(stdin[r]) # "y"
    \/ stdin[r] = "" /\ run[r].end = "declined"

\* An exception of the environment (engine, file system) was raised in r.
EnvFailure(r) == run[r].error = "Exception"

Interrupted(r) == run[r].error = "KeyboardInterrupt"

\* An exception other than KeyboardInterrupt was raised in r.
Failed(r) == run[r].error \in {"Exception", "KeyError"}

\* The number of records of the corpus files of the version directory.
CorpusSize == Len(Concat(CHOOSE order \in Perms(dataDir.files) : TRUE))

Packaged == {"weights", "tokenizer", "finetuning_config.json"}

CrashFiles == {t \in Clock : crashReports[t] # NoFile}

RECURSIVE ReportsOf(_)
ReportsOf(S) ==
    IF S = {} THEN 0
    ELSE LET r == CHOOSE x \in S : TRUE
         IN  run[r].reports + ReportsOf(S \ {r})

\* ------------------------------------------------------------------------
\* C1
\* ------------------------------------------------------------------------

\* C1: a run with exactly one argument naming an existing base model, an
\* accelerator or a yes from the operator, a version directory with at
\* least one corpus file, and no failure of the engine or of a write (and
\* no interruption) ends with status 0, its artifact directory holding
\* weights, tokenizer and metadata, and its documentation file recording
\* the number of examples.
C1_RunCompletes ==
    \A r \in Runs :
      ( /\ Done(r)
        /\ GoodArgs(r)
        /\ (cuda \/ Agrees(r))
        /\ dataDir.exists /\ dataDir.files # {}
        /\ ~EnvFailure(r) /\ ~Interrupted(r) )
      => /\ run[r].exit = {0}
         /\ Packaged \subseteq artifacts[OutputDir(r)].files
         /\ docs[OutputDir(r)] # NoFile
         /\ docs[OutputDir(r)].examples = CorpusSize


\* ------------------------------------------------------------------------
\* C2
\* ------------------------------------------------------------------------

\* The missing-license log of run r is on disk.
LicenseLogged(r) ==
    \E t \in run[r].licenseStamps : licenseLogs[t] # NoFile /\ licenseLogs[t].by = r

CrashReported(r, context) ==
    /\ run[r].exit = {1}
    /\ run[r].reports = 1
    /\ Cardinality(run[r].reportStamps) = 1
    /\ \A t \in run[r].reportStamps :
         /\ crashReports[t] # NoFile
         /\ crashReports[t].by = r =>
              /\ crashReports[t].traceback # << >>
              /\ crashReports[t].traceback[Len(crashReports[t].traceback)]
                   = run[r].stage
              /\ crashReports[t].context = context

C4_OneFilePerFailure == Cardinality(CrashFiles) = ReportsOf(Runs)

\* ------------------------------------------------------------------------
\* C5
\* ------------------------------------------------------------------------

\* C5: a run in which a stage was cut short by KeyboardInterrupt ends with
\* status 130 and has written no crash report.
C5_InterruptExits130 ==
    \A r \in Runs :
      Interrupted(r) =>
        /\ Done(r)
        /\ run[r].exit = {130}
        /\ run[r].reports = 0
        /\ \A t \in Clock : crashReports[t] # NoFile => crashReports[t].by # r

\* One run was interrupted at the prompt, another while saving, after its
\* weights were written.
C5_Witness ==
    \E r, q \in Runs :
      /\ Interrupted(r) /\ run[r].stage = "prompt" /\ run[r].exit = {130}
      /\ Interrupted(q) /\ run[q].stage = "saving" /\ run[q].exit = {130}
      /\ "weights" \in run[q].wrote

\* ------------------------------------------------------------------------
\* C6
\* ------------------------------------------------------------------------

NoCorpus == ~dataDir.exists \/ dataDir.files = {}

\* C6: with the version directory missing or without corpus files, no run
\* ever creates or writes its artifact directory, and a run that is neither
\* interrupted nor declined at the prompt ends with status 1.
C6_NoCorpusNoArtifact ==
    NoCorpus =>
      \A r \in Runs :
        /\ ~run[r].madeArtifact
        /\ run[r].wrote = {}
        /\ (GoodArgs(r) => ~artifacts[OutputDir(r)].exists)
        /\ (Done(r) /\ ~Interrupted(r) /\ run[r].end # "declined")
             => run[r].exit = {1}

\* A run has entered load_training_data, found no corpus and exited with
\* status 1.
C6_Witness ==
    \E r \in Runs :
      /\ run[r].end \in {"DatasetNotFound", "DatasetEmpty"}
      /\ run[r].loaded
      /\ run[r].exit = {1}


\* ------------------------------------------------------------------------
\* C7
\* ------------------------------------------------------------------------

\* The operator-correctable pre-flight error a run has to end with: its
\* base-model path does not exist, or it does and (the operator not
\* declining) the version directory is missing or holds no corpus file.
PreflightError(r) ==
    /\ Len(argv[r]) = 2
    /\ \/ argv[r][2] \notin ExistingPaths
       \/ (cuda \/ Agrees(r)) /\ NoCorpus

\* C7: a run with a pre-flight error (and no failure of the environment,
\* no interruption) exits with status 1 and has written no crash report.
C7_PreflightNoReport ==
    \A r \in Runs :
      (Done(r) /\ PreflightError(r) /\ ~EnvFailure(r) /\ ~Interrupted(r)) =>
        /\ run[r].exit = {1}
        /\ run[r].reports = 0

\* ------------------------------------------------------------------------
\* C8
\* ------------------------------------------------------------------------

\* C8: a run without accelerator whose operator declines (and no failure of
\* the environment, no interruption) exits with status 0, never enters
\* load_training_data and writes no crash report.
C8_DeclineExits0 ==
    \A r \in Runs :
      ( /\ Done(r) /\ GoodArgs(r)
        /\ ~cuda /\ Declines(r)
        /\ ~EnvFailure(r) /\ ~Interrupted(r) )
      => /\ run[r].exit = {0}
         /\ ~run[r].loaded
         /\ run[r].reports = 0

\* ------------------------------------------------------------------------
\* C9
\* ------------------------------------------------------------------------

\* The documentation stage of r, entered after train_model returned, raised
\* an exception of the environment (the write failed).
DocWriteFailed(r) ==
    run[r].returned /\ run[r].stage = "documenting" /\ EnvFailure(r)

C10_ReturnMeansPackaged ==
    \A r \in Runs :
      /\ run[r].returned =>
           /\ Packaged \subseteq artifacts[OutputDir(r)].files
           /\ Packaged \subseteq run[r].wrote
           /\ run[r].configWrites = 1
      /\ (run[r].stage = "saving" /\ run[r].error # "none") =>
           /\ ~run[r].returned
           /\ run[r].configWrites = 0

\* train_model has returned in one run; in another the tokenizer could not
\* be saved after the weights were.
C10_Witness ==
    \E r, q \in Runs :
      /\ run[r].returned /\ run[r].configWrites = 1
      /\ Done(q) /\ run[q].stage = "saving" /\ EnvFailure(q)
      /\ "weights" \in run[q].wrote /\ "tokenizer" \notin run[q].wrote


\* ------------------------------------------------------------------------
\* C11
\* ------------------------------------------------------------------------

HeaderLines == {"### Instruction:", "### Input:", "### Response:"}

IsHeader(line) == line \in HeaderLines

\* The section headers of a text, in their order.
Headers(t) == SelectSeq(t, IsHeader)

\* A record cut down to the three fields of a TrainingExample.
Fields(ex) ==
    [k \in DOMAIN ex \cap {"instruction", "input", "output"} |-> ex[k]]

\* C11: the text returned for a record has the three headers Instruction,
\* Input, Response, in this order, when the record's input is a non-empty
\* string, and the two headers Instruction, Response when the input is
\* absent, empty (or None); and it is the text returned for the record's
\* instruction, input and output fields alone.
C11_SectionHeaders ==
    text # << >> =>
      /\ ("input" \in DOMAIN example /\ example["input"] \notin {"", NONE})
           => Headers(text) = <<"### Instruction:", "### Input:", "### Response:">>
      /\ ("input" \notin DOMAIN example \/ example["input"] \in {"", NONE})
           => Headers(text) = <<"### Instruction:", "### Response:">>
      /\ text = format_instruction(Fields(example))
      /\ text[2] = Str(Get(example, "instruction"))
      /\ text[Len(text)] = Str(Get(example, "output"))

\* A record with an empty input has been formatted, into two sections.
C11_Witness ==
    /\ "input" \in DOMAIN example /\ example["input"] = ""
    /\ "id" \in DOMAIN example
    /\ Len(Headers(text)) = 2


\* ------------------------------------------------------------------------
\* C12
\* ------------------------------------------------------------------------

LexicalOrder == <<"a.jsonl", "b.jsonl">>

IsCorpusFile(f) == f \in dataDir.files

====
